---- MODULE Spec2Model ----
(***************************************************************************)
(* Model of json-array-stream: the byte-level JsonDepthAnalyzer            *)
(* (src/src/json_depth_analyzer.rs) and the JsonArrayStream splitter       *)
(* (src/src/lib.rs) that drives it over the chunks of a byte source.       *)
(*                                                                         *)
(* Bytes are one-character strings.  Option<T> is a sequence of length     *)
(* at most one: None is << >>, Some(x) is << x >>.                         *)
(***************************************************************************)
EXTENDS Integers, Sequences, FiniteSets, TLC

VARIABLES
    state,      \* JsonDepthAnalyzer.state: the stack of ParserState tags
    buffer,     \* JsonArrayStream.buffer
    chunk,      \* JsonArrayStream.chunk: Option of the bytes left in the chunk
    comma,      \* JsonArrayStream.comma
    end,        \* JsonArrayStream.end
    stream,     \* the chunk source: [ready: Option chunk, closed: BOOLEAN]
    fed,        \* history: every byte the source has handed out, in order
    consumed,   \* history: every byte passed to process, in order
    trace,      \* history: the result of process for each consumed byte
    depths,     \* history: depth() before each consumed byte
    results,    \* history: what the pulls yielded (Pending and None excluded)
    last,       \* history: the most recent call of process / poll_next
    run,        \* 1: first pass over the input, 2: second pass (re-chunked)
    first,      \* the results of the first pass, kept for the second
    replay,     \* second pass: the bytes the source has still to hand out
    midcut,     \* this pass loaded a chunk in the middle of a string
    alphabet    \* the bytes the environment draws from

vars == << state, buffer, chunk, comma, end, stream, fed, consumed, trace,
           depths, results, last, run, first, replay, midcut, alphabet >>

----------------------------------------------------------------------------
(* Bounds *)

MaxInput == 5     \* bytes the source hands out in one pass
MaxChunk == 2     \* longest chunk the source hands out
MaxFeed == 5      \* bytes fed directly to the analyzer
MaxEof == 2       \* pulls answered by the exhausted source
MaxLiveInput == 6 \* bytes the source hands out to a consumer that keeps pulling

----------------------------------------------------------------------------
(* Bytes *)

QUOTE == "\""
BACKSLASH == "\\"

\* Representatives of every class of byte the code distinguishes.
Bytes == { "[", "]", "{", "}", QUOTE, BACKSLASH, ",", " ", "u", "n", "b", "1", "x" }

\* The families of bytes a chunk source draws from: elements with
\* whitespace; objects and unmatched closers; strings with escapes.
Alphabets ==
    { { "[", "]", ",", " ", "1" },
      { "[", "]", ",", "{", "}" },
      { "[", "]", ",", QUOTE, BACKSLASH } }

\* u8::is_ascii_hexdigit, on the bytes of the model
is_ascii_hexdigit(c) == c \in { "0", "1", "2", "3", "4", "5", "6", "7", "8", "9",
                                "a", "b", "c", "d", "e", "f",
                                "A", "B", "C", "D", "E", "F" }

\* char::is_whitespace of (c as char), on the bytes of the model
is_whitespace(c) == c \in { " ", "\t", "\n", "\r", "\f" }

\* "\"\\/bfnrt".bytes().any(|e| c == e)
is_escape_char(c) == c \in { QUOTE, BACKSLASH, "/", "b", "f", "n", "r", "t" }

----------------------------------------------------------------------------
(* Option *)

None == << >>
Some(x) == << x >>

----------------------------------------------------------------------------
(* JsonDepthAnalyzer *)

StringFamily == { "String", "StringEscape", "StringHex4", "StringHex3",
                  "StringHex2", "StringHex1" }

ParserState == { "Object", "Array" } \cup StringFamily

Ok == [kind |-> "Ok", got |-> "", expected |-> ""]
WrongState(got, expected) == [kind |-> "WrongState", got |-> got, expected |-> expected]
WrongHexCharacter(c) == [kind |-> "WrongHexCharacter", got |-> c, expected |-> ""]
WrongEscapeCharacter(c) == [kind |-> "WrongEscapeCharacter", got |-> c, expected |-> ""]

\* Vec::last as a tag, "None" for the empty stack
StackLast(st) == IF st = << >> THEN "None" ELSE st[Len(st)]

StackPop(st) == SubSeq(st, 1, Len(st) - 1)

StackPush(st, tag) == Append(st, tag)

\* *self.state.last_mut().unwrap() = tag
StackSetLast(st, tag) == [st EXCEPT ![Len(st)] = tag]

depth(st) == Len(st)

\* Mutant of HexArm: a byte that is no hex digit abandons the string.
HexArmPopsOnError(st, c, next) ==
    IF is_ascii_hexdigit(c)
        THEN [state |-> StackSetLast(st, next), res |-> Ok]
        ELSE [state |-> StackPop(st), res |-> WrongHexCharacter(c)]

\* The arms for StringHex4..StringHex1: advance, then judge the byte.
HexArm(st, c, next) ==
    [state |-> StackSetLast(st, next),
     res |-> IF is_ascii_hexdigit(c) THEN Ok ELSE WrongHexCharacter(c)]

\* The arm (Some(StringEscape), c)
EscapeArm(st, c) ==
    [state |-> StackSetLast(st, "String"),
     res |-> IF is_escape_char(c) THEN Ok ELSE WrongEscapeCharacter(c)]

\* Mutant of WrongStateArm: the unmatched closer pops what is open.
WrongStateArmPops(st, expected) ==
    [state |-> StackPop(st), res |-> WrongState(StackLast(st), expected)]

\* The arm (got, b'}') / (got, b']'): the stack is left alone
WrongStateArm(st, expected) ==
    [state |-> st, res |-> WrongState(StackLast(st), expected)]

\* Mutant of StringArm: the bytes inside a string reach the structural arms.
StringArmFallsThrough(st, c) ==
    IF c = "{" THEN [state |-> StackPush(st, "Object"), res |-> Ok]
    ELSE IF c = "[" THEN [state |-> StackPush(st, "Array"), res |-> Ok]
    ELSE [state |-> st, res |-> Ok]

\* The arm (Some(String), _): any other byte inside a string is content
StringArm(st, c) == [state |-> st, res |-> Ok]

\* process(&mut self, c): the match arms in source order
process(st, c) ==
    LET top == StackLast(st) IN
    IF top = "String" /\ c = QUOTE THEN [state |-> StackPop(st), res |-> Ok]
    ELSE IF c = QUOTE THEN [state |-> StackPush(st, "String"), res |-> Ok]
    ELSE IF top = "String" /\ c = BACKSLASH
        THEN [state |-> StackSetLast(st, "StringEscape"), res |-> Ok]
    ELSE IF top = "StringEscape" /\ c = "u"
        THEN [state |-> StackSetLast(st, "StringHex4"), res |-> Ok]
    ELSE IF top = "StringHex4" THEN HexArm(st, c, "StringHex3")
    ELSE IF top = "StringHex3" THEN HexArm(st, c, "StringHex2")
    ELSE IF top = "StringHex2" THEN HexArm(st, c, "StringHex1")
    ELSE IF top = "StringHex1" THEN HexArm(st, c, "String")
    ELSE IF top = "StringEscape" THEN EscapeArm(st, c)
    ELSE IF top = "String" THEN StringArm(st, c)
    ELSE IF c = "{" THEN [state |-> StackPush(st, "Object"), res |-> Ok]
    ELSE IF top = "Object" /\ c = "}" THEN [state |-> StackPop(st), res |-> Ok]
    ELSE IF c = "}" THEN WrongStateArm(st, "Object")
    ELSE IF c = "[" THEN [state |-> StackPush(st, "Array"), res |-> Ok]
    ELSE IF top = "Array" /\ c = "]" THEN [state |-> StackPop(st), res |-> Ok]
    ELSE IF c = "]" THEN WrongStateArm(st, "Array")
    ELSE [state |-> st, res |-> Ok]

----------------------------------------------------------------------------
(* The chunk source: S: Stream<Item = B> *)

\* stream.poll_next(cx).  A chunk that is ready is handed over; a closed
\* source with nothing ready answers Ready(None), also when asked again (the
\* sources of the tests, futures::stream::once, are fused); otherwise Pending.
StreamPollNext(s) ==
    IF s.ready # None
        THEN [poll |-> "ReadySome", chunk |-> s.ready[1],
              stream |-> [s EXCEPT !.ready = None]]
    ELSE IF s.closed
        THEN [poll |-> "ReadyNone", chunk |-> << >>, stream |-> s]
    ELSE [poll |-> "Pending", chunk |-> << >>, stream |-> s]

----------------------------------------------------------------------------
(* JsonArrayStream::poll_next *)

\* What one call yields
Item(span) == [kind |-> "Item", span |-> span, err |-> Ok]
ParserErr(e) == [kind |-> "Parser", span |-> << >>, err |-> e]
IoErr == [kind |-> "Io", span |-> << >>, err |-> Ok]
ReadyNone == [kind |-> "None", span |-> << >>, err |-> Ok]
Pending == [kind |-> "Pending", span |-> << >>, err |-> Ok]
NoCall == [kind |-> "NoCall", span |-> << >>, err |-> Ok]
Processed(e) == [kind |-> "Process", span |-> << >>, err |-> e]

\* Mutant of Decide: whitespace is dropped at every depth.
DecideStripsAllWhitespace(t, initial_depth, c) ==
    IF initial_depth = 1 /\ c = ","
        THEN [this |-> [t EXCEPT !.comma = TRUE], emit |-> TRUE]
    ELSE IF is_whitespace(c)
        THEN [this |-> t, emit |-> FALSE]
    ELSE IF depth(t.state) = 0
        THEN [this |-> [t EXCEPT !.end = TRUE], emit |-> TRUE]
    ELSE [this |-> [t EXCEPT !.buffer = Append(@, c)], emit |-> FALSE]

\* Mutant of Decide: a "]" ends the array at whatever depth it is read.
DecideEndsOnBracket(t, initial_depth, c) ==
    IF initial_depth = 1 /\ c = ","
        THEN [this |-> [t EXCEPT !.comma = TRUE], emit |-> TRUE]
    ELSE IF initial_depth = 1 /\ is_whitespace(c)
        THEN [this |-> t, emit |-> FALSE]
    ELSE IF depth(t.state) = 0 \/ c = "]"
        THEN [this |-> [t EXCEPT !.end = TRUE], emit |-> TRUE]
    ELSE [this |-> [t EXCEPT !.buffer = Append(@, c)], emit |-> FALSE]

\* let emit = if .. else if .. else if .. else ..: the byte's effect on the
\* comma flag, the end flag and the buffer, and whether it is a boundary
Decide(t, initial_depth, c) ==
    IF initial_depth = 1 /\ c = ","
        THEN [this |-> [t EXCEPT !.comma = TRUE], emit |-> TRUE]
    ELSE IF initial_depth = 1 /\ is_whitespace(c)
        THEN [this |-> t, emit |-> FALSE]
    ELSE IF depth(t.state) = 0
        THEN [this |-> [t EXCEPT !.end = TRUE], emit |-> TRUE]
    ELSE [this |-> [t EXCEPT !.buffer = Append(@, c)], emit |-> FALSE]

\* Mutant of Emit: the comma flag is cleared when a span is handed out.
EmitResetsComma(t) ==
    IF Len(t.buffer) = 0 /\ ~t.comma
        THEN [this |-> t, out |-> ReadyNone]
    ELSE [this |-> [t EXCEPT !.buffer = << >>, !.comma = FALSE],
          out |-> Item(t.buffer)]

\* Mutant of Emit: the buffer is copied out and keeps its bytes.
EmitKeepsBuffer(t) ==
    IF Len(t.buffer) = 0 /\ ~t.comma
        THEN [this |-> t, out |-> ReadyNone]
    ELSE [this |-> t, out |-> Item(t.buffer)]

\* Mutant of Emit: an empty buffer ends the sequence, comma or not.
EmitEndsOnEmpty(t) ==
    IF Len(t.buffer) = 0
        THEN [this |-> t, out |-> ReadyNone]
    ELSE [this |-> [t EXCEPT !.buffer = << >>], out |-> Item(t.buffer)]

\* if emit { .. }: nothing to hand out and no comma seen ends the sequence;
\* otherwise the buffer is swapped for an empty one and handed out
Emit(t) ==
    IF Len(t.buffer) = 0 /\ ~t.comma
        THEN [this |-> t, out |-> ReadyNone]
    ELSE [this |-> [t EXCEPT !.buffer = << >>], out |-> Item(t.buffer)]

\* Mutant of LoadChunk: a new chunk starts with an empty buffer.
LoadChunkClearsBuffer(t, ch) ==
    [t EXCEPT !.chunk = Some(ch),
              !.buffer = << >>,
              !.midcut = @ \/ (ch # << >> /\ StackLast(t.state) \in StringFamily)]

\* Poll::Ready(Some(chunk)) => this.chunk = Some(chunk.into_iter())
LoadChunk(t, ch) ==
    [t EXCEPT !.chunk = Some(ch),
              !.midcut = @ \/ (ch # << >> /\ StackLast(t.state) \in StringFamily)]

\* for c in chunk: the iterator yields c, which is processed
TakeByte(t, c, p) ==
    [t EXCEPT !.chunk = Some(Tail(t.chunk[1])),
              !.before = t.state,
              !.snap = [buffer |-> t.buffer, comma |-> t.comma, end |-> t.end],
              !.state = p.state,
              !.consumed = Append(@, c),
              !.trace = Append(@, p.res),
              !.depths = Append(@, depth(t.state))]

\* Mutant of Propagate: an analyzer error ends the sequence.
PropagateEndsStream(t, e) ==
    [this |-> [t EXCEPT !.end = TRUE], out |-> ParserErr(e)]

\* Mutant of Propagate: the rejected byte is buffered before it is judged.
PropagateKeepsByte(t, e) ==
    [this |-> [t EXCEPT !.buffer = Append(@, t.consumed[Len(t.consumed)])],
     out |-> ParserErr(e)]

\* The error of process leaves poll_next through the ? operator.
Propagate(t, e) == [this |-> t, out |-> ParserErr(e)]

\* Mutant of Suspend: the bytes gathered so far are dropped on suspension.
SuspendDropsBuffer(t) == [this |-> [t EXCEPT !.buffer = << >>], out |-> Pending]

\* Poll::Pending => return Poll::Pending
Suspend(t) == [this |-> t, out |-> Pending]

\* loop { .. }: the iterations of the loop of poll_next from the state t0
\* up to the return (t0 is evaluated once and handed to the iteration)
RECURSIVE Loop(_)

\* One iteration: the next byte of the chunk, or the next chunk of the source
Iteration(t) ==
    IF t.chunk # None /\ t.chunk[1] # << >>
    THEN LET c == Head(t.chunk[1])
             initial_depth == depth(t.state)
             p == process(t.state, c)
             t1 == TakeByte(t, c, p)
         IN  IF p.res.kind # "Ok" THEN Propagate(t1, p.res)
             ELSE IF initial_depth = 0 THEN Loop(t1)
             ELSE LET d == Decide(t1, initial_depth, c)
                  IN  IF d.emit THEN Emit(d.this) ELSE Loop(d.this)
    ELSE LET t0 == [t EXCEPT !.chunk = None]
             r == StreamPollNext(t0.stream)
             t1 == [t0 EXCEPT !.stream = r.stream]
         IN  IF r.poll = "ReadyNone" THEN [this |-> t1, out |-> IoErr]
             ELSE IF r.poll = "Pending" THEN Suspend(t1)
             ELSE Loop(LoadChunk(t1, r.chunk))

Loop(t0) == CHOOSE r \in { Iteration(t) : t \in { t0 } } : TRUE

\* Mutant of EndCheck: the end flag is not looked at.
EndCheckMissing(t) == FALSE

\* if this.end { return Poll::Ready(None); }
EndCheck(t) == t.end

\* poll_next(self, cx)
poll_next(t) ==
    IF EndCheck(t) THEN [this |-> t, out |-> ReadyNone] ELSE Loop(t)

----------------------------------------------------------------------------
(* State machine *)

This ==
    [state |-> state, buffer |-> buffer, chunk |-> chunk, comma |-> comma,
     end |-> end, stream |-> stream, consumed |-> consumed, trace |-> trace,
     depths |-> depths, before |-> last.before, snap |-> last.snap,
     midcut |-> FALSE]

Yielded(out) == out.kind \in { "Item", "Parser", "Io" }

IoCount == Cardinality({ i \in DOMAIN results : results[i].kind = "Io" })

\* The consumer has seen the sequence end, or its first PrematureEndOfInput.
Done == last.out.kind \in { "None", "Io" }

\* Buffer, comma flag and end flag of a splitter that has consumed nothing
NoSnap == [buffer |-> << >>, comma |-> FALSE, end |-> FALSE]

\* stream_json_array(stream): a fresh splitter over a source that has handed
\* out nothing yet
Construct ==
    /\ state = << >>
    /\ buffer = << >>
    /\ chunk = None
    /\ comma = FALSE
    /\ end = FALSE
    /\ stream = [ready |-> None, closed |-> FALSE]
    /\ fed = << >>
    /\ consumed = << >>
    /\ trace = << >>
    /\ depths = << >>
    /\ results = << >>
    /\ last = [out |-> NoCall, endBefore |-> FALSE, before |-> << >>,
               snap |-> NoSnap]
    /\ run = 1
    /\ first = [results |-> << >>, midcut |-> FALSE]
    /\ replay = << >>
    /\ midcut = FALSE

Init == Construct /\ alphabet \in Alphabets

Chunks(n) == UNION { [1..k -> alphabet] : k \in 0..n }

Min(a, b) == IF a < b THEN a ELSE b

\* The source gets its next chunk ready (any bytes, possibly none), up to n
\* bytes in all.
DeliverUpTo(n) ==
    /\ run = 1
    /\ stream.ready = None
    /\ ~stream.closed
    /\ \E ch \in Chunks(Min(MaxChunk, n - Len(fed))) :
        /\ stream' = [stream EXCEPT !.ready = Some(ch)]
        /\ fed' = fed \o ch
    /\ UNCHANGED << state, buffer, chunk, comma, end, consumed, trace, depths, results,
                    last, run, first, replay, midcut, alphabet >>

Deliver == DeliverUpTo(MaxInput)

\* The source has no more chunks.
Close ==
    /\ run = 1
    /\ ~stream.closed
    /\ stream' = [stream EXCEPT !.closed = TRUE]
    /\ UNCHANGED << state, buffer, chunk, comma, end, fed, consumed, trace, depths,
                    results, last, run, first, replay, midcut, alphabet >>

\* One call of poll_next by the consumer, with r what it returns
Pull(r) ==
    /\ state' = r.this.state
    /\ buffer' = r.this.buffer
    /\ chunk' = r.this.chunk
    /\ comma' = r.this.comma
    /\ end' = r.this.end
    /\ stream' = r.this.stream
    /\ consumed' = r.this.consumed
    /\ trace' = r.this.trace
    /\ depths' = r.this.depths
    /\ results' = IF Yielded(r.out) THEN Append(results, r.out) ELSE results
    /\ last' = [out |-> r.out, endBefore |-> end, before |-> r.this.before,
                snap |-> r.this.snap]
    /\ UNCHANGED << fed, run, first, replay, alphabet >>

\* The consumer pulls the splitter once.
Poll ==
    /\ IoCount < MaxEof
    /\ Pull(poll_next(This))
    /\ UNCHANGED midcut

Next == Deliver \/ Close \/ Poll

Spec == Init /\ [][Next]_vars

----------------------------------------------------------------------------
(* The analyzer on its own: bytes fed straight to process *)

InitAnalyzer == Construct /\ alphabet = Bytes

Feed ==
    /\ Len(consumed) < MaxFeed
    /\ \E c \in alphabet :
        LET p == process(state, c) IN
        /\ state' = p.state
        /\ consumed' = Append(consumed, c)
        /\ trace' = Append(trace, p.res)
        /\ depths' = Append(depths, depth(state))
        /\ last' = [out |-> Processed(p.res), endBefore |-> FALSE,
                    before |-> state, snap |-> NoSnap]
    /\ UNCHANGED << buffer, chunk, comma, end, stream, fed, results, run,
                    first, replay, midcut, alphabet >>

NextAnalyzer == Feed

SpecAnalyzer == InitAnalyzer /\ [][NextAnalyzer]_vars

----------------------------------------------------------------------------
(* Two passes over one input: first cut into chunks at will, then again as
   a single chunk *)

\* The consumer of either pass stops pulling once it is done.
PollPass ==
    /\ ~Done
    /\ LET r == poll_next(This) IN
        /\ Pull(r)
        /\ midcut' = (midcut \/ r.this.midcut)

\* The first pass is over: a fresh splitter is built over a source that
\* will hand out the same bytes again.
Restart ==
    /\ run = 1
    /\ Done
    /\ run' = 2
    /\ first' = [results |-> Append(results, last.out), midcut |-> midcut]
    /\ replay' = fed
    /\ state' = << >>
    /\ buffer' = << >>
    /\ chunk' = None
    /\ comma' = FALSE
    /\ end' = FALSE
    /\ stream' = [ready |-> None, closed |-> FALSE]
    /\ consumed' = << >>
    /\ trace' = << >>
    /\ depths' = << >>
    /\ results' = << >>
    /\ last' = [out |-> NoCall, endBefore |-> FALSE, before |-> << >>,
                snap |-> NoSnap]
    /\ midcut' = FALSE
    /\ UNCHANGED << fed, alphabet >>

\* Second pass: the source gets the whole input ready as one chunk.
Redeliver ==
    /\ run = 2
    /\ stream.ready = None
    /\ ~stream.closed
    /\ replay # << >>
    /\ stream' = [stream EXCEPT !.ready = Some(replay)]
    /\ replay' = << >>
    /\ UNCHANGED << state, buffer, chunk, comma, end, fed, consumed, trace, depths,
                    results, last, run, first, midcut, alphabet >>

\* Second pass: the source has handed out the whole input.
Reclose ==
    /\ run = 2
    /\ replay = << >>
    /\ ~stream.closed
    /\ stream' = [stream EXCEPT !.closed = TRUE]
    /\ UNCHANGED << state, buffer, chunk, comma, end, fed, consumed, trace, depths,
                    results, last, run, first, replay, midcut, alphabet >>

NextChunked ==
    Deliver \/ Close \/ PollPass \/ Restart \/ Redeliver \/ Reclose

SpecChunked == Init /\ [][NextChunked]_vars

----------------------------------------------------------------------------
(* A source that ends and a consumer that keeps pulling *)

\* Arrays of arrays and of strings with escapes
LiveBytes == { "[", "]", QUOTE, BACKSLASH }

InitLive == Construct /\ alphabet = LiveBytes

DeliverLive == DeliverUpTo(MaxLiveInput)

NextLive == DeliverLive \/ Close \/ Poll

\* The source hands out finitely many chunks and then signals exhaustion;
\* the consumer pulls again whenever a pull can change anything.
SpecLive ==
    /\ InitLive
    /\ [][NextLive]_vars
    /\ WF_vars(Close)
    /\ WF_vars(Poll)

----------------------------------------------------------------------------
(* What the histories say about the bytes consumed so far *)

\* The depth after the first i consumed bytes: what depth() returned before
\* byte i + 1 was processed, and the present depth after the last byte
DepthAt(i) == IF i < Len(consumed) THEN depths[i + 1] ELSE depth(state)

Errored(i) == trace[i].kind # "Ok"

NoErrors == \A i \in DOMAIN trace : ~Errored(i)

\* A comma consumed at depth 1
IsComma(i) == consumed[i] = "," /\ ~Errored(i) /\ DepthAt(i - 1) = 1

\* The byte that returns the depth to 0
IsClose(i) == ~Errored(i) /\ DepthAt(i) = 0 /\ DepthAt(i - 1) >= 1

Boundaries == { i \in DOMAIN consumed : IsComma(i) \/ IsClose(i) }

\* The elements of a set of numbers in increasing order
RECURSIVE Sorted(_)
Sorted(S) ==
    IF S = {} THEN << >>
    ELSE LET m == CHOOSE x \in S : \A y \in S : x <= y
         IN  << m >> \o Sorted(S \ { m })

\* The consumed byte i belongs to an element: it lies inside the outer
\* structure, is no boundary and is no whitespace of depth 1
InSpan(i) ==
    /\ ~Errored(i)
    /\ LET d == DepthAt(i - 1) IN d >= 1 /\ ~(d = 1 /\ is_whitespace(consumed[i]))
    /\ ~(IsComma(i) \/ IsClose(i))

\* The element bytes strictly between the positions lo and hi, in order
SpanBetween(lo, hi) ==
    LET idx == Sorted({ i \in (lo + 1)..(hi - 1) : InSpan(i) })
    IN  [n \in 1..Len(idx) |-> consumed[idx[n]]]

\* The last boundary before position i, 0 when there is none
BoundaryBefore(i) ==
    LET B == { b \in Boundaries : b < i }
    IN  IF B = {} THEN 0 ELSE CHOOSE b \in B : \A y \in B : y <= b

IsItem(r) == r.kind = "Item"
IsParserErr(r) == r.kind = "Parser"
IsIoErr(r) == r.kind = "Io"
NotIoErr(r) == r.kind # "Io"

Items == SelectSeq(results, IsItem)

\* The bytes of the current chunk and of the ready chunk not consumed yet
ChunkRest == IF chunk = None THEN << >> ELSE chunk[1]
ReadyRest == IF stream.ready = None THEN << >> ELSE stream.ready[1]

----------------------------------------------------------------------------
(* C1 *)

\* C1: chunking independence.  The first pass cuts the input into chunks
\* in any way (empty chunks, cuts inside strings and escapes included); the
\* second pass hands the same bytes out as one chunk.  A consumer that pulls
\* until end-of-sequence or the first PrematureEndOfInput obtains the same
\* sequence of results in both passes; two arbitrary chunkings then agree
\* because each agrees with the single chunk.
ChunkingIndependence ==
    (run = 2 /\ Done) => Append(results, last.out) = first.results

\* Both passes are over an input that opens with the outer array and closes
\* it, the first one loaded a chunk in the middle of a string, and an
\* element was yielded.
ChunkingWitness ==
    /\ run = 2
    /\ Done
    /\ first.midcut
    /\ end
    /\ fed # << >> /\ fed[1] = "["
    /\ \E i \in DOMAIN results : IsItem(results[i]) /\ results[i].span # << >>

----------------------------------------------------------------------------
(* C2 *)

\* The reference reading of "well-formed": balanced {} and [] and string
\* literals with valid escapes, nothing else.
RefInit == [open |-> << >>, mode |-> "out", ok |-> TRUE]

RefStep(r, c) ==
    IF ~r.ok THEN r
    ELSE IF r.mode = "out" THEN
        IF c \in { "{", "[" } THEN [r EXCEPT !.open = Append(@, c)]
        ELSE IF c = "}" /\ r.open # << >> /\ r.open[Len(r.open)] = "{"
            THEN [r EXCEPT !.open = SubSeq(@, 1, Len(@) - 1)]
        ELSE IF c = "]" /\ r.open # << >> /\ r.open[Len(r.open)] = "["
            THEN [r EXCEPT !.open = SubSeq(@, 1, Len(@) - 1)]
        ELSE IF c = QUOTE THEN [r EXCEPT !.mode = "string"]
        ELSE [r EXCEPT !.ok = FALSE]
    ELSE IF r.mode = "string" THEN
        IF c = QUOTE THEN [r EXCEPT !.mode = "out"]
        ELSE IF c = BACKSLASH THEN [r EXCEPT !.mode = "escape"]
        ELSE r
    ELSE IF r.mode = "escape" THEN
        IF c \in { QUOTE, BACKSLASH, "/", "b", "f", "n", "r", "t" }
            THEN [r EXCEPT !.mode = "string"]
        ELSE IF c = "u" THEN [r EXCEPT !.mode = "hex4"]
        ELSE [r EXCEPT !.ok = FALSE]
    ELSE IF ~is_ascii_hexdigit(c) THEN [r EXCEPT !.ok = FALSE]
    ELSE IF r.mode = "hex4" THEN [r EXCEPT !.mode = "hex3"]
    ELSE IF r.mode = "hex3" THEN [r EXCEPT !.mode = "hex2"]
    ELSE IF r.mode = "hex2" THEN [r EXCEPT !.mode = "hex1"]
    ELSE [r EXCEPT !.mode = "string"]

RECURSIVE RefAfter(_)
RefAfter(bytes) ==
    IF bytes = << >> THEN RefInit
    ELSE RefStep(RefAfter(SubSeq(bytes, 1, Len(bytes) - 1)), bytes[Len(bytes)])

WellFormed(bytes) ==
    LET r == RefAfter(bytes) IN r.ok /\ r.open = << >> /\ r.mode = "out"

\* C2: every well-formed input of balanced brackets and valid strings and
\* escapes is processed by a fresh analyzer without an error and leaves
\* depth 0 after the last byte.
WellFormedIsAccepted ==
    WellFormed(consumed) => (NoErrors /\ depth(state) = 0)

----------------------------------------------------------------------------
(* C3 *)

\* The first consumed byte that raises the depth from 0 is "[".
OpensOuterArray ==
    \E o \in DOMAIN consumed :
        /\ consumed[o] = "["
        /\ DepthAt(o) = 1
        /\ \A i \in 1..(o - 1) : DepthAt(i) = 0

OuterOpener ==
    CHOOSE o \in DOMAIN consumed :
        DepthAt(o) = 1 /\ \A i \in 1..(o - 1) : DepthAt(i) = 0

DepthOneCommas == Cardinality({ i \in DOMAIN consumed : IsComma(i) })

\* A byte that is no whitespace lies between the brackets.
NonBlankInside ==
    \E i \in (OuterOpener + 1)..(Len(consumed) - 1) : ~is_whitespace(consumed[i])

\* C3: for an input that opens the outer array, produces no analyzer error
\* and closes the outer array, with k commas consumed at depth 1: k + 1
\* spans are emitted when k >= 1; when k = 0, one span if a byte that is no
\* whitespace lies between the brackets, and none otherwise.
ElementCount ==
    (OpensOuterArray /\ NoErrors /\ end) =>
        Len(Items) = IF DepthOneCommas >= 1 THEN DepthOneCommas + 1
                     ELSE IF NonBlankInside THEN 1 ELSE 0

\* "[,]" was split: two empty spans around the lone comma.
ElementCountWitness ==
    /\ OpensOuterArray /\ NoErrors /\ end
    /\ DepthOneCommas = 1
    /\ results = << Item(<< >>), Item(<< >>) >>

----------------------------------------------------------------------------
(* C4 *)

\* C4: for an input processed without analyzer errors, the n-th emitted
\* span is, byte for byte and in input order, the bytes consumed at depth
\* >= 1 between the (n-1)-th and the n-th boundary (a depth-1 comma or the
\* byte returning the depth to 0), without the boundaries and without the
\* whitespace consumed at depth 1; commas and whitespace consumed deeper
\* stay in the span and cause no emission.
SpanContent ==
    NoErrors =>
        LET B == Sorted(Boundaries) IN
        /\ Len(Items) <= Len(B)
        /\ \A n \in 1..Len(Items) :
            Items[n].span = SpanBetween(IF n = 1 THEN 0 ELSE B[n - 1], B[n])

\* A span that holds a comma consumed at depth 2 was emitted.
SpanContentWitness ==
    /\ NoErrors
    /\ consumed # << >> /\ consumed[1] = "["
    /\ \E n \in DOMAIN Items :
        \E j \in DOMAIN Items[n].span : Items[n].span[j] = ","

----------------------------------------------------------------------------
(* C5 *)

\* C5: when the source is exhausted before the outer array has closed, the
\* splitter yields one PrematureEndOfInput in total, however often the
\* consumer pulls, and no element after it.
SinglePrematureEnd ==
    /\ IoCount <= 1
    /\ \A i, j \in DOMAIN results :
        (IsIoErr(results[i]) /\ i < j) => ~IsItem(results[j])

----------------------------------------------------------------------------
(* C6 *)

\* C6: once the splitter is terminal, every later pull signals
\* end-of-sequence: it yields nothing, consumes no byte of the current chunk
\* and does not pull the source.
TerminalIsFinal ==
    [][end =>
        /\ end'
        /\ results' = results
        /\ consumed' = consumed
        /\ chunk' = chunk
        /\ state' = state
        /\ buffer' = buffer
        /\ (stream.ready # None => stream'.ready = stream.ready)
        /\ (last' # last => (last'.out = ReadyNone /\ last'.endBefore))
      ]_vars

\* A pull of the terminal splitter signalled end-of-sequence with bytes
\* left in the current chunk and a further chunk ready at the source.
TerminalWitness ==
    /\ end
    /\ last.endBefore
    /\ last.out = ReadyNone
    /\ ChunkRest # << >>
    /\ ReadyRest # << >>

----------------------------------------------------------------------------
(* C7 *)

CloserOf(tag) ==
    IF tag = "Object" THEN "}" ELSE IF tag = "Array" THEN "]" ELSE QUOTE

\* The closers that match the open structures of st, innermost first
Closers(st) == [n \in 1..Len(st) |-> CloserOf(st[Len(st) + 1 - n])]

\* Feeding bytes to the analyzer in state st: the final stack and whether
\* every call returned Ok
RECURSIVE ProcessAll(_, _)
ProcessAll(st, bytes) ==
    IF bytes = << >> THEN [state |-> st, ok |-> TRUE]
    ELSE LET p == process(st, Head(bytes))
             q == ProcessAll(p.state, Tail(bytes))
         IN  [state |-> q.state, ok |-> (p.res.kind = "Ok" /\ q.ok)]

LastByte == consumed[Len(consumed)]

\* The last call processed a "}" or "]" outside a string that does not
\* match the top of the stack.
UnmatchedCloser ==
    /\ last.out.kind = "Process"
    /\ LastByte \in { "}", "]" }
    /\ StackLast(last.before) \notin StringFamily
    /\ StackLast(last.before) # (IF LastByte = "}" THEN "Object" ELSE "Array")

\* C7: a "}" or "]" processed outside a string whose top of stack is not
\* the matching Object / Array (or with an empty stack) returns
\* WrongState{got: top or none, expected} and leaves the stack unchanged, so
\* that feeding the matching closers afterwards returns no error and brings
\* the depth back to 0.
StructuralErrorRecovery ==
    UnmatchedCloser =>
        /\ last.out.err = WrongState(StackLast(last.before),
                                     IF LastByte = "}" THEN "Object" ELSE "Array")
        /\ state = last.before
        /\ LET q == ProcessAll(state, Closers(state))
           IN  q.ok /\ depth(q.state) = 0

\* "[{]" raised WrongState, then "}" and "]" were processed without error
\* and the depth is back to 0.
StructuralErrorWitness ==
    /\ consumed = << "[", "{", "]", "}", "]" >>
    /\ trace[3] = WrongState("Object", "Array")
    /\ trace[4] = Ok /\ trace[5] = Ok
    /\ depth(state) = 0

----------------------------------------------------------------------------
(* C8 *)

\* C8: the depth is never negative, one call of process changes it by -1,
\* 0 or +1, and a call that returns an error does not change it.
DepthStep ==
    /\ depth(state) >= 0
    /\ last.out.kind = "Process" =>
        /\ depth(state) - depth(last.before) \in { -1, 0, 1 }
        /\ last.out.err.kind # "Ok" => depth(state) = depth(last.before)

\* A call returned WrongHexCharacter inside an array and left the depth 2.
DepthStepWitness ==
    /\ last.out.kind = "Process"
    /\ last.out.err.kind = "WrongHexCharacter"
    /\ depth(last.before) = 2
    /\ depth(state) = 2

----------------------------------------------------------------------------
(* C9 *)

\* The boundary i hands a span out: every comma does, the closing byte does
\* unless its span is empty and no comma came before.
Emits(i) ==
    \/ IsComma(i)
    \/ /\ IsClose(i)
       /\ \/ SpanBetween(BoundaryBefore(i), i) # << >>
          \/ \E j \in 1..(i - 1) : IsComma(j)

\* What the consumed bytes must have yielded, in input order: one Parser
\* error per byte the analyzer rejected, one span per emitting boundary.
ExpectedResults ==
    LET ev == Sorted({ i \in DOMAIN consumed : Errored(i) \/ Emits(i) })
    IN  [n \in 1..Len(ev) |->
            IF Errored(ev[n]) THEN ParserErr(trace[ev[n]])
            ELSE Item(SpanBetween(BoundaryBefore(ev[n]), ev[n]))]

\* C9: every byte the analyzer rejects surfaces as one Err(Parser) of one
\* pull, in input order relative to the elements, and the splitter keeps
\* functioning: the next unconsumed byte follows, the later elements are
\* emitted and the sequence ends when the outer structure closes.
ErrorsSurfaceOnce ==
    /\ SelectSeq(results, NotIoErr) = ExpectedResults
    /\ consumed \o ChunkRest \o ReadyRest = fed
    /\ end <=> (\E i \in DOMAIN consumed : IsClose(i))

\* An unmatched "}" inside the array was reported, the element after it was
\* emitted and the sequence ended.
ErrorsSurfaceWitness ==
    /\ end
    /\ Len(results) >= 2
    /\ IsParserErr(results[1])
    /\ IsItem(results[Len(results)]) /\ results[Len(results)].span # << >>
    /\ consumed[1] = "["

----------------------------------------------------------------------------
(* C10 *)

\* C10 as stated: after every pull that emits a span the comma flag is
\* false.
CommaResetOnEmission == IsItem(last.out) => ~comma

\* C10 as amended: the comma flag is never reset; after every pull that
\* emits a span it is true exactly when a comma has been consumed at depth
\* 1 since construction.
CommaFlagSticky == IsItem(last.out) => (comma <=> DepthOneCommas >= 1)

\* The closing bracket emitted a span after an earlier comma had emitted
\* one, and the flag is still set.
CommaFlagWitness ==
    /\ IsItem(last.out)
    /\ end
    /\ comma
    /\ Len(Items) >= 2
    /\ last.out.span # << >>

----------------------------------------------------------------------------
(* C11 *)

\* The last call processed a byte with StringEscape on top of the stack.
EscapeCall == last.out.kind = "Process" /\ StackLast(last.before) = "StringEscape"

\* C11: with StringEscape on top, each of the bytes " \ / b f n r t
\* replaces the top with String, keeps the depth and returns no error; any
\* other byte except u also replaces the top with String but returns
\* WrongEscapeCharacter{got: byte}.
EscapeTransition ==
    (EscapeCall /\ LastByte # "u") =>
        /\ state = StackSetLast(last.before, "String")
        /\ last.out.err = IF LastByte \in { QUOTE, BACKSLASH, "/", "b", "f", "n", "r", "t" }
                              THEN Ok ELSE WrongEscapeCharacter(LastByte)

----------------------------------------------------------------------------
(* C12 *)

HexFamily == { "StringHex4", "StringHex3", "StringHex2", "StringHex1" }

NextHex(tag) ==
    IF tag = "StringHex4" THEN "StringHex3"
    ELSE IF tag = "StringHex3" THEN "StringHex2"
    ELSE IF tag = "StringHex2" THEN "StringHex1"
    ELSE "String"

\* C12: with StringHex4..StringHex1 on top, processing any byte replaces the
\* top with the next state of the chain StringHex4 -> StringHex3 ->
\* StringHex2 -> StringHex1 -> String, the depth unchanged; the call returns
\* Ok exactly when the byte is an ASCII hex digit and
\* WrongHexCharacter{got: byte} for every other byte.
HexTransition ==
    (last.out.kind = "Process" /\ StackLast(last.before) \in HexFamily) =>
        /\ state = StackSetLast(last.before, NextHex(StackLast(last.before)))
        /\ last.out.err = IF is_ascii_hexdigit(LastByte)
                              THEN Ok ELSE WrongHexCharacter(LastByte)

----------------------------------------------------------------------------
(* C13 *)

\* C13 as stated: the splitter becomes terminal only by consuming the
\* closing bracket of the outer array.  Whenever a byte consumed at depth
\* >= 1 leaves the analyzer at depth 0 (which sets the terminal flag), that
\* byte is "]" and the tag it popped is the Array pushed by the "[" that
\* raised the depth from 0 to 1.
TerminalByClosingBracket ==
    /\ end <=> (\E i \in DOMAIN consumed : IsClose(i))
    /\ \A i \in DOMAIN consumed :
        IsClose(i) =>
            /\ i = Len(consumed)
            /\ consumed[i] = "]"
            /\ last.before = << "Array" >>
            /\ consumed[OuterOpener] = "["

\* The closing byte that belongs to the byte that opened the outer
\* structure, and the tag that byte pushed
OuterCloser(c) == IF c = "[" THEN "]" ELSE IF c = "{" THEN "}" ELSE QUOTE
OuterTag(c) == IF c = "[" THEN "Array" ELSE IF c = "{" THEN "Object" ELSE "String"

\* C13, amended: the splitter becomes terminal exactly by consuming the byte
\* that closes the outermost structure, whatever opened it.  The byte that
\* returns the depth to 0 is the last byte consumed; the byte that raised
\* the depth from 0 to 1 is "[", "{" or a quote, the closing byte is its
\* counterpart and the tag it pops is the one the opener pushed; so the
\* closing byte is "]" and pops that Array whenever the opener was "[".
TerminalByOuterCloser ==
    /\ end <=> (\E i \in DOMAIN consumed : IsClose(i))
    /\ \A i \in DOMAIN consumed :
        IsClose(i) =>
            /\ i = Len(consumed)
            /\ consumed[OuterOpener] \in { "[", "{", QUOTE }
            /\ consumed[i] = OuterCloser(consumed[OuterOpener])
            /\ last.before = << OuterTag(consumed[OuterOpener]) >>

\* The outer array was opened by "[", held an object and a string-free
\* element boundary, and its "]" made the splitter terminal.
TerminalByOuterCloserWitness ==
    /\ end
    /\ consumed[OuterOpener] = "["
    /\ LastByte = "]"
    /\ \E i \in DOMAIN consumed : consumed[i] = "}" /\ ~Errored(i)
    /\ Items # << >>

----------------------------------------------------------------------------
(* C14 *)

\* C14: a pull whose consumed byte makes the analyzer return an error
\* leaves the buffer, the comma flag and the terminal flag as they were
\* before that byte; the byte is consumed from the chunk (it is the last
\* byte consumed and none of the bytes still to come), is not appended to
\* the buffer and yields the error instead of a span.
ErrorLeavesSplitter ==
    IsParserErr(last.out) =>
        /\ Errored(Len(consumed))
        /\ last.out.err = trace[Len(consumed)]
        /\ buffer = last.snap.buffer
        /\ comma = last.snap.comma
        /\ end = last.snap.end
        /\ consumed \o ChunkRest \o ReadyRest = fed
        /\ results[Len(results)] = last.out

\* A byte was rejected while an element was in the buffer and the comma
\* flag was set.
ErrorLeavesSplitterWitness ==
    /\ IsParserErr(last.out)
    /\ buffer # << >>
    /\ comma
    /\ ~end

----------------------------------------------------------------------------
(* C15 *)

\* The number of bytes in the spans of a sequence of results
RECURSIVE SpanBytes(_)
SpanBytes(rs) ==
    IF rs = << >> THEN 0 ELSE Len(Head(rs).span) + SpanBytes(Tail(rs))

\* C15: right after every pull that yields an element span the buffer is
\* empty; at every moment the buffer holds exactly the element bytes
\* consumed since the most recent boundary; and no byte is in two spans:
\* the spans handed out and the buffer together hold each element byte once.
BufferSinceBoundary ==
    /\ IsItem(last.out) => buffer = << >>
    /\ buffer = SpanBetween(BoundaryBefore(Len(consumed) + 1), Len(consumed) + 1)
    /\ SpanBytes(Items) + Len(buffer)
           = Cardinality({ i \in DOMAIN consumed : InSpan(i) })

\* A second non-empty element was handed out at a comma.
BufferSinceBoundaryWitness ==
    /\ IsItem(last.out)
    /\ last.out.span # << >>
    /\ ~end
    /\ Len(Items) >= 2
    /\ Items[1].span # << >>

----------------------------------------------------------------------------
(* C16 *)

\* The step is a pull of the splitter (not a step of the source).
PullStep ==
    /\ run' = run
    /\ stream'.closed = stream.closed
    /\ ~(stream.ready = None /\ stream'.ready # None)

\* The pull polled the source: it took the ready chunk, or it returned what
\* the source answered.
PolledSource ==
    \/ stream.ready # None /\ stream'.ready = None
    \/ last'.out.kind \in { "Pending", "Io" }

\* What the bytes consumed so far determine: the analyzer's stack, the
\* buffer, the two flags and the results
Determined ==
    [state |-> ProcessAll(<< >>, consumed).state,
     buffer |-> SpanBetween(BoundaryBefore(Len(consumed) + 1), Len(consumed) + 1),
     comma |-> DepthOneCommas >= 1,
     end |-> \E i \in DOMAIN consumed : IsClose(i),
     results |-> ExpectedResults]

Reached ==
    [state |-> state, buffer |-> buffer, comma |-> comma, end |-> end,
     results |-> SelectSeq(results, NotIoErr)]

\* C16: suspension transparency.  A pull reports "not ready" only when the
\* current chunk is fully consumed and the source has no chunk ready, and
\* it then yields nothing; a pull polls the source only after consuming
\* every byte left in the current chunk; and the results yielded and the
\* splitter state reached are those the consumed bytes determine, whatever
\* "not ready" answers came in between.
SuspensionTransparency ==
    /\ [](Reached = Determined)
    /\ [][
        /\ (PullStep /\ last'.out = Pending) =>
               /\ chunk' = None
               /\ stream'.ready = None
               /\ ~stream.closed
               /\ results' = results
        /\ (PullStep /\ PolledSource) =>
               /\ Len(consumed') >= Len(consumed) + Len(ChunkRest)
               /\ SubSeq(consumed', 1, Len(consumed) + Len(ChunkRest))
                      = consumed \o ChunkRest
       ]_vars

\* A pull was suspended in the middle of the second element, after the
\* first one had been yielded.
SuspensionWitness ==
    /\ last.out = Pending
    /\ buffer # << >>
    /\ Items # << >>
    /\ chunk = None
    /\ stream.ready = None

----------------------------------------------------------------------------
(* C17 *)

\* The bytes start with a complete well-formed array.
ContainsArray(bytes) ==
    /\ bytes # << >>
    /\ bytes[1] = "["
    /\ \E k \in 2..Len(bytes) : WellFormed(SubSeq(bytes, 1, k))

\* The consumer receives end-of-sequence or PrematureEndOfInput.
PullsTerminate == <>Done

\* C17: with a source that delivers finitely many finite chunks and then
\* signals exhaustion, a consumer that keeps pulling eventually receives
\* end-of-sequence or PrematureEndOfInput; and if the delivered bytes
\* contain a complete well-formed top-level array, it eventually receives
\* end-of-sequence and never PrematureEndOfInput.
ConsumerEventuallyDone ==
    /\ PullsTerminate
    /\ [](ContainsArray(fed) => IoCount = 0)
    /\ ContainsArray(fed) ~> (last.out = ReadyNone)

----------------------------------------------------------------------------
(* C18 *)

\* C18: the String-family tags form one run at the top of the stack: no
\* Object or Array tag lies above a String-family tag.
StringRunOnTop ==
    \A i, j \in DOMAIN state :
        (i < j /\ state[i] \in StringFamily) => state[j] \in StringFamily

\* A "{" or "[" was processed inside a string that lies inside an array or
\* object, and pushed nothing.
StringRunOnTopWitness ==
    /\ last.out.kind = "Process"
    /\ LastByte \in { "{", "[" }
    /\ StackLast(last.before) \in StringFamily
    /\ state[1] \in { "Object", "Array" }
    /\ state = last.before

----------------------------------------------------------------------------
(* C19 *)

StringTags == { i \in DOMAIN state : state[i] \in StringFamily }
OpenContainers == { i \in DOMAIN state : state[i] \in { "Object", "Array" } }

\* C19: the stack holds at most one String-family tag, so depth() is the
\* number of open objects and arrays, plus 1 while inside a string literal.
SingleStringTag ==
    /\ Cardinality(StringTags) <= 1
    /\ depth(state) = Cardinality(OpenContainers)
                          + (IF StackLast(state) \in StringFamily THEN 1 ELSE 0)

----------------------------------------------------------------------------
(* C20 *)

\* C20: between pulls, a set terminal flag means the analyzer is at depth 0
\* and the buffer is empty; and a pull signals end-of-sequence only when
\* the terminal flag is set: not when the source is exhausted, not on an
\* analyzer error, not on a depth-1 comma with an empty buffer.
TerminalMeansDrained ==
    /\ end => (depth(state) = 0 /\ buffer = << >>)
    /\ last.out = ReadyNone => end
    /\ \A i \in DOMAIN results : Yielded(results[i])

\* The sequence ended after a comma with an empty buffer and an analyzer
\* error had each yielded a result of their own.
TerminalMeansDrainedWitness ==
    /\ last.out = ReadyNone
    /\ end
    /\ \E i \in DOMAIN results : IsParserErr(results[i])
    /\ \E i \in DOMAIN results : IsItem(results[i]) /\ results[i].span = << >>

====
